---- MODULE Spec2Model ----
(***************************************************************************)
(* conplicity: backup of Docker volumes through short-lived worker         *)
(* containers.  Three entry points of the repository are modelled, one per *)
(* value of prog:                                                          *)
(*   "main"    the batch loop of package main (main, backupVolume,         *)
(*             pullImage, getVolumeLabel, checkErr)                        *)
(*   "volume"  the Duplicity operations of package volume (Backup,         *)
(*             RemoveOld, Cleanup, Verify, Status)                         *)
(*   "restic"  the Restic engine (Backup, init, resticBackup, verify,      *)
(*             launchRestic)                                               *)
(***************************************************************************)
EXTENDS Integers, Sequences, FiniteSets, TLC

VARIABLES
    prog,        \* entry point under execution
    pc,          \* position of the single control thread
    env,         \* environment parsed by getEnv
    vols,        \* result of ListVolumes: the volume names, in discovery order
    i,           \* index of the volume of the current loop iteration
    voll,        \* result of the last InspectVolume call
    err,         \* the err variable of the running function
    container,   \* the worker created last
    created,     \* number of CreateContainer calls that succeeded
    removed,     \* number of RemoveContainer calls
    entered,     \* volumes for which backupVolume has been called
    inspectFailed, \* volumes whose InspectVolume call failed
    reports,     \* failures written to the log by checkErr
    exitCode,    \* process exit status, once the process has ended
    pulled,      \* whether pullImage has called PullImage
    image,       \* what InspectImage and PullImage answered to the last pullImage
    v,           \* the Volume an engine operation works on
    op,          \* the engine operation that was called
    request,     \* command and binds of the last worker launch
    launches,    \* number of worker launches requested
    state,       \* exit code of the worker, as the operation reads it
    stdout,      \* captured output of the worker, as the operation reads it
    metrics,     \* metrics returned by the operation
    step,        \* the step of ResticEngine.Backup that Retry is running
    attempt,     \* the number of the attempt Retry is running
    polls,       \* ContainerInspect calls of the current launch
    calls,       \* per step, how many times Retry has invoked it
    fails,       \* per step, how many invocations returned an error
    retried,     \* per step, what Retry returned: "ok" or "failed"
    scheduled,   \* what IsCheckScheduled returned
    lastCheck,   \* whether verify has set the time of the last check
    worker,      \* status of the worker of the current launch, as the runtime knows it
    tick,        \* flips at every ContainerInspect call that leaves the worker running
    trace        \* the runtime calls of the current launch, with their outcomes

vars == <<prog, pc, env, vols, i, voll, err, container, created, removed,
          entered, inspectFailed, reports, exitCode, pulled, image,
          v, op, request, launches, state, stdout, metrics,
          step, attempt, polls, calls, fails, retried, scheduled, lastCheck,
          worker, tick, trace>>

mainVars == <<vols, i, voll, container, created, removed, entered, inspectFailed,
              pulled, image>>
engineVars == <<v, op, request, launches, state, stdout, metrics>>
resticVars == <<step, attempt, polls, calls, fails, retried, scheduled, lastCheck,
                worker, tick, trace>>

(***************************************************************************)
(* Bounds of the model.                                                    *)
(***************************************************************************)
MaxVols == 2
MaxLines == 2
MaxPolls == 2

(***************************************************************************)
(* Values.                                                                 *)
(***************************************************************************)
NoErr == "nil"
NoExit == -1
AnonLen == 64
labelPrefix == "io.conplicity"

\* A volume name, by what the code reads of it: its number of runes and its
\* number of bytes (a multi-byte rune makes the two differ).
Names ==
    { [runes |-> 6, bytes |-> 6],
      [runes |-> AnonLen, bytes |-> AnonLen],
      [runes |-> AnonLen, bytes |-> AnonLen + 2],
      [runes |-> AnonLen - 2, bytes |-> AnonLen] }

\* Mutant: the length in bytes, len(vol.Name), instead of the rune count.
RuneCountAsLen(name) == name.bytes

RuneCountInString(name) == name.runes

LabelKeys == { labelPrefix \o ".ignore", labelPrefix \o ".full_if_older_than" }

IgnoreValues == {"true", "false", ""}
FullIfOlderThanValues == {"7D", ""}

\* The label maps a volume can carry: each key is absent or has a value.
LabelMaps ==
    { m \in UNION { [D -> IgnoreValues \cup FullIfOlderThanValues] : D \in SUBSET LabelKeys } :
        /\ (labelPrefix \o ".ignore") \in DOMAIN m
              => m[labelPrefix \o ".ignore"] \in IgnoreValues
        /\ (labelPrefix \o ".full_if_older_than") \in DOMAIN m
              => m[labelPrefix \o ".full_if_older_than"] \in FullIfOlderThanValues }

NilVolume == [isNil |-> TRUE, Name |-> [runes |-> 0, bytes |-> 0], Labels |-> [k \in {} |-> ""]]

Volume(name, labels) == [isNil |-> FALSE, Name |-> name, Labels |-> labels]

VolLists == UNION { [1..n -> Names] : n \in 0..MaxVols }

Environments ==
    [ FullIfOlderThan : {"15D", "30D"},
      DuplicityTargetURL : {"", "s3://bucket"} ]

NoEnvironment == [FullIfOlderThan |-> "", DuplicityTargetURL |-> ""]

NoContainer == [ID |-> 0, vol |-> 0, Cmd |-> <<>>, started |-> FALSE, removes |-> 0, ExitCode |-> 0]

ExitCodes == {0, 2}

(***************************************************************************)
(* checkErr: logs when err is set, and ends the process unless exit is -1. *)
(***************************************************************************)
checkErr(e, msg, exit) ==
    [ logged |-> IF e # NoErr THEN {msg} ELSE {},
      exits  |-> e # NoErr /\ exit # NoExit,
      code   |-> exit ]

\* Mutant: the removal of the worker is left out.
RemoveContainerNever(c) == c

\* Mutant: the worker is removed by the function and again by its defer.
RemoveContainerTwice(c) == [c EXCEPT !.removes = @ + 2]

\* RemoveContainer(ID: container.ID, Force: true): one removal of the worker.
RemoveContainer(c) == [c EXCEPT !.removes = @ + 1]

\* getVolumeLabel: a Go map lookup, "" when the key is absent.
getVolumeLabel(vol, key) ==
    IF (labelPrefix \o key) \in DOMAIN vol.Labels
    THEN vol.Labels[labelPrefix \o key]
    ELSE ""

\* No call of InspectImage or PullImage.
NotCalled == "not called"
NoImage == [inspect |-> NotCalled, pull |-> NotCalled]

\* Mutant: the image is pulled without looking at its inspection.
pullImageAlways(inspectErr, pullErr) == [err |-> pullErr, pulled |-> TRUE]

\* pullImage: the image is pulled only when its inspection fails.
pullImage(inspectErr, pullErr) ==
    IF inspectErr # NoErr
    THEN [err |-> pullErr, pulled |-> TRUE]
    ELSE [err |-> inspectErr, pulled |-> FALSE]

(***************************************************************************)
(* package main                                                            *)
(***************************************************************************)
Panic == "panic"
Terminal == {"done", "exited", "crashed"}

Report(what, vol) == [what |-> what, vol |-> vol]

\* The command of the duplicity container built by backupVolume.
backupVolumeCmd(fullIfOlderThan, target) ==
    << "--full-if-older-than", fullIfOlderThan,
       "--s3-use-new-style",
       "--no-encryption",
       "--allow-source-mismatch",
       "/var/backups",
       target >>

\* Mutant: the label is ignored and the global default always used.
fullIfOlderThanDefault(vol, e) == e.FullIfOlderThan

\* The retention threshold backupVolume resolves for a volume.
fullIfOlderThan(vol, e) ==
    IF getVolumeLabel(vol, ".full_if_older_than") = ""
    THEN e.FullIfOlderThan
    ELSE getVolumeLabel(vol, ".full_if_older_than")

\* Mutant: any non-empty value of the ignore label blacklists the volume.
isBlacklistedAnyValue(vol) == getVolumeLabel(vol, ".ignore") # ""

\* The two early returns of backupVolume.
isUnnamed(vol) == RuneCountInString(vol.Name) = AnonLen
isBlacklisted(vol) == getVolumeLabel(vol, ".ignore") = "true"

\* main, lines 39-49: getEnv, whose result is not looked at, then os.Hostname
\* and docker.NewClient, each followed by checkErr(..., 1)
main_Start ==
    /\ prog = "main" /\ pc = "main"
    /\ \E he \in {NoErr, "Hostname failed"}, ne \in {NoErr, "NewClient failed"} :
          LET ce1 == checkErr(he, Report("hostname", 0), 1)
              ce2 == checkErr(ne, Report("client", 0), 1) IN
          /\ he # NoErr => ne = NoErr
          /\ err' = IF ce1.exits THEN he ELSE ne
          /\ reports' = IF ce1.exits THEN reports \cup ce1.logged
                        ELSE reports \cup ce2.logged
          /\ IF ce1.exits THEN pc' = "exited" /\ exitCode' = ce1.code
             ELSE IF ce2.exits THEN pc' = "exited" /\ exitCode' = ce2.code
             ELSE pc' = "ListVolumes" /\ UNCHANGED exitCode
    /\ UNCHANGED engineVars
    /\ UNCHANGED resticVars
    /\ UNCHANGED <<prog, env, vols, i, voll, container, created, removed, entered,
                   inspectFailed, pulled, image>>

\* main, lines 51-52: vols, err := c.ListVolumes(...); checkErr(..., 1)
main_ListVolumes ==
    /\ prog = "main" /\ pc = "ListVolumes"
    /\ \E e \in {NoErr, "ListVolumes failed"}, vs \in VolLists :
          LET ce == checkErr(e, Report("list", 0), 1) IN
          /\ err' = e
          /\ reports' = reports \cup ce.logged
          /\ IF ce.exits
             THEN /\ pc' = "exited"
                  /\ exitCode' = ce.code
                  /\ vols' = << >>
             ELSE /\ pc' = "pullImage"
                  /\ vols' = vs
                  /\ UNCHANGED exitCode
    /\ UNCHANGED engineVars
    /\ UNCHANGED resticVars
    /\ UNCHANGED <<prog, env, i, voll, container, created, removed, entered,
                   inspectFailed, pulled, image>>

\* main, lines 54-55: err = c.pullImage(); checkErr(..., 1)
main_pullImage ==
    /\ prog = "main" /\ pc = "pullImage"
    /\ \E ie \in {NoErr, "InspectImage failed"}, pe \in {NoErr, "PullImage failed"} :
          LET r  == pullImage(ie, pe)
              ce == checkErr(r.err, Report("image", 0), 1) IN
          /\ err' = r.err
          /\ pulled' = r.pulled
          /\ image' = [inspect |-> ie, pull |-> IF r.pulled THEN pe ELSE NotCalled]
          /\ reports' = reports \cup ce.logged
          /\ IF ce.exits
             THEN pc' = "exited" /\ exitCode' = ce.code
             ELSE pc' = "loop" /\ UNCHANGED exitCode
    /\ UNCHANGED engineVars
    /\ UNCHANGED resticVars
    /\ UNCHANGED <<prog, env, vols, i, voll, container, created, removed, entered,
                   inspectFailed>>

\* main, lines 57-59: voll, _ := c.InspectVolume(vol.Name); checkErr(err, ..., -1)
\* The error of InspectVolume is discarded; checkErr reads the err left by the
\* previous statement that assigned it.
main_InspectVolume ==
    /\ prog = "main" /\ pc = "loop" /\ i <= Len(vols)
    /\ \E ok \in BOOLEAN, labels \in LabelMaps :
          /\ ok = FALSE => labels = [k \in {} |-> ""]
          /\ voll' = IF ok THEN Volume(vols[i], labels) ELSE NilVolume
          /\ inspectFailed' = IF ok THEN inspectFailed ELSE inspectFailed \cup {i}
    /\ LET ce == checkErr(err, Report("inspect", i), NoExit) IN
          /\ reports' = reports \cup ce.logged
          /\ pc' = IF ce.exits THEN "exited" ELSE "backupVolume"
    /\ UNCHANGED engineVars
    /\ UNCHANGED resticVars
    /\ UNCHANGED <<prog, env, vols, i, err, container, created, removed, entered,
                   exitCode, pulled, image>>

\* main, line 64: the loop is over, "End backup..."
main_End ==
    /\ prog = "main" /\ pc = "loop" /\ i > Len(vols)
    /\ pc' = "done"
    /\ exitCode' = 0
    /\ UNCHANGED engineVars
    /\ UNCHANGED resticVars
    /\ UNCHANGED <<prog, env, vols, i, voll, err, container, created, removed,
                   entered, inspectFailed, reports, pulled, image>>

\* What main does with the error backupVolume returned, line 61, and the step
\* to the next volume.
mainAfterBackupVolume(e) ==
    LET ce == checkErr(e, Report("process", i), NoExit) IN
    /\ err' = e
    /\ reports' = reports \cup ce.logged
    /\ pc' = IF ce.exits THEN "exited" ELSE "loop"
    /\ i' = i + 1

\* backupVolume, lines 74-128: the two skips, the command, CreateContainer and
\* its checkErr(..., 1).  A nil vol panics at the first vol.Name.
backupVolume_Create ==
    /\ prog = "main" /\ pc = "backupVolume"
    /\ entered' = entered \cup {i}
    /\ IF voll.isNil
       THEN /\ pc' = "crashed"
            /\ exitCode' = 2
            /\ UNCHANGED <<err, reports, i, container, created>>
       ELSE IF isUnnamed(voll) \/ isBlacklisted(voll)
       THEN /\ mainAfterBackupVolume(NoErr)
            /\ UNCHANGED <<exitCode, container, created>>
       ELSE \E e \in {NoErr, "CreateContainer failed"} :
              LET ce == checkErr(e, Report("create", i), 1) IN
              /\ err' = e
              /\ reports' = reports \cup ce.logged
              /\ UNCHANGED i
              /\ IF ce.exits
                 THEN /\ pc' = "exited"
                      /\ exitCode' = ce.code
                      /\ UNCHANGED <<container, created>>
                 ELSE /\ pc' = "Start"
                      /\ created' = created + 1
                      /\ container' =
                            [ ID |-> created + 1, vol |-> i,
                              Cmd |-> backupVolumeCmd(fullIfOlderThan(voll, env),
                                        <<env.DuplicityTargetURL, "hostname", voll.Name>>),
                              started |-> FALSE, removes |-> 0, ExitCode |-> 0 ]
                      /\ UNCHANGED exitCode
    /\ UNCHANGED engineVars
    /\ UNCHANGED resticVars
    /\ UNCHANGED <<prog, env, vols, voll, removed, inspectFailed, pulled, image>>

\* backupVolume, lines 141-144: dockerpty.Start runs the container to its end;
\* checkErr(..., -1) only logs.  The call may also panic.
backupVolume_Start ==
    /\ prog = "main" /\ pc = "Start"
    /\ \E e \in {NoErr, "Start failed", Panic}, code \in ExitCodes :
          LET ce == checkErr(e, Report("start", i), NoExit) IN
          /\ e # NoErr => code = 0
          /\ err' = e
          /\ container' = [container EXCEPT !.started = (e = NoErr), !.ExitCode = code]
          /\ reports' = IF e = Panic THEN reports ELSE reports \cup ce.logged
    /\ pc' = "deferred"
    /\ UNCHANGED engineVars
    /\ UNCHANGED resticVars
    /\ UNCHANGED <<prog, env, vols, i, voll, created, removed, entered,
                   inspectFailed, exitCode, pulled, image>>

\* backupVolume, lines 130-135 and 145: the deferred RemoveContainer runs when
\* the function returns or panics; main then checks the returned error.
backupVolume_Return ==
    /\ prog = "main" /\ pc = "deferred"
    /\ container' = RemoveContainer(container)
    /\ removed' = removed + (container'.removes - container.removes)
    /\ IF err = Panic
       THEN /\ pc' = "crashed"
            /\ exitCode' = 2
            /\ UNCHANGED <<err, reports, i>>
       ELSE /\ mainAfterBackupVolume(err)
            /\ UNCHANGED exitCode
    /\ UNCHANGED engineVars
    /\ UNCHANGED resticVars
    /\ UNCHANGED <<prog, env, vols, voll, created, entered, inspectFailed, pulled, image>>

MainNext ==
    \/ main_Start
    \/ main_ListVolumes
    \/ main_pullImage
    \/ main_InspectVolume
    \/ main_End
    \/ backupVolume_Create
    \/ backupVolume_Start
    \/ backupVolume_Return

(***************************************************************************)
(* package volume                                                          *)
(***************************************************************************)
cacheMount == "duplicity_cache:/root/.cache/duplicity"

NoVolume ==
    [ Name |-> "", Target |-> "", BackupDir |-> "", Mount |-> "",
      Mountpoint |-> "", FullIfOlderThan |-> "", RemoveOlderThan |-> "", TargetURL |-> "" ]

NoRequest == [Cmd |-> << >>, Binds |-> << >>]

\* The volumes handed to the Duplicity operations.
DuplicityVolumes ==
    { [ Name |-> n, Target |-> "s3://bucket/host/" \o n, BackupDir |-> "/var/backups",
        Mount |-> n \o ":/var/backups:ro", Mountpoint |-> "/var/lib/docker/volumes/" \o n,
        FullIfOlderThan |-> "15D", RemoveOlderThan |-> "30D",
        TargetURL |-> "s3://bucket" ] : n \in {"data", "db"} }

\* What follows a marker on its line: a timestamp, other text or nothing, and
\* the white space that ends the line (a terminal ends its lines with \r\n).
Stamp(y, mo, d, h, mi, s) ==
    [kind |-> "stamp", year |-> y, month |-> mo, day |-> d, hour |-> h, min |-> mi, sec |-> s]
Garbage == [kind |-> "text", year |-> 0, month |-> 0, day |-> 0, hour |-> 0, min |-> 0, sec |-> 0]
Empty == [kind |-> "empty", year |-> 0, month |-> 0, day |-> 0, hour |-> 0, min |-> 0, sec |-> 0]

Stamps ==
    { Stamp(1970, 1, 1, 0, 0, 0),
      Stamp(2006, 1, 2, 15, 4, 5),
      Stamp(2016, 2, 29, 23, 59, 59),
      Stamp(2015, 2, 29, 12, 0, 0) }

Bodies == Stamps \cup {Garbage, Empty}

\* The lines of a worker's output: a line with one of the two markers of
\* collection-status, the line restic prints for an existing repository, or
\* any other line.
MarkerLines == [marker : {"full", "chain"}, body : Bodies, trail : {"", "\r"}]
OtherLine == [marker |-> "none", body |-> Garbage, trail |-> ""]
InitializedLine == [marker |-> "already initialized", body |-> Garbage, trail |-> ""]
Lines == MarkerLines \cup {OtherLine}

Outputs == UNION { [1..n -> Lines] : n \in 0..MaxLines }

\* (.+): the rest of the line, which must hold at least one character.
RestOfLine(line) == [body |-> line.body, trail |-> line.trail]
MatchesRx(line, marker) ==
    line.marker = marker /\ (line.body # Empty \/ line.trail # "")

\* regexp.FindStringSubmatch: the leftmost match, << >> when there is none;
\* element 1 of the model is the submatch, fullBackup[1] in the code.
FindStringSubmatch(marker, out) ==
    LET hits == { k \in 1..Len(out) : MatchesRx(out[k], marker) } IN
    IF hits = {} THEN << >>
    ELSE << RestOfLine(out[CHOOSE k \in hits : \A j \in hits : k <= j]) >>

\* strings.TrimSpace
TrimSpace(text) == text.body

IsLeap(y) == (y % 4 = 0 /\ y % 100 # 0) \/ y % 400 = 0
DaysIn(mo, y) ==
    IF mo = 2 THEN (IF IsLeap(y) THEN 29 ELSE 28)
    ELSE IF mo \in {4, 6, 9, 11} THEN 30 ELSE 31

\* Days from 1970-01-01 to the given date of the proleptic Gregorian calendar.
DaysFromCivil(y, mo, d) ==
    LET yy  == IF mo <= 2 THEN y - 1 ELSE y
        era == yy \div 400
        yoe == yy - era * 400
        mp  == IF mo > 2 THEN mo - 3 ELSE mo + 9
        doy == (153 * mp + 2) \div 5 + d - 1
        doe == yoe * 365 + yoe \div 4 - yoe \div 100 + doy
    IN  era * 146097 + doe - 719468

\* A time.Time, as days since the epoch and seconds of the day.  The zero
\* Time is January 1 of year 1, 00:00:00 UTC.
ZeroTime == [days |-> DaysFromCivil(1, 1, 1), secs |-> 0]

\* time.Parse(timeFormat, s) with timeFormat = "Mon Jan 2 15:04:05 2006": the
\* weekday is read and not checked against the date; the day must exist in
\* the month; there is no zone, so the time is UTC.
timeParse(s) ==
    IF /\ s.kind = "stamp"
       /\ s.month \in 1..12
       /\ s.day \in 1..DaysIn(s.month, s.year)
       /\ s.hour \in 0..23 /\ s.min \in 0..59 /\ s.sec \in 0..59
    THEN [ err  |-> NoErr,
           time |-> [ days |-> DaysFromCivil(s.year, s.month, s.day),
                      secs |-> s.hour * 3600 + s.min * 60 + s.sec ] ]
    ELSE [ err |-> "parse error", time |-> ZeroTime ]

\* Time.Unix: a 64-bit number of seconds, kept as the pair (q, r) that stands
\* for q * 86400 + r (the zero Time does not fit TLC's integers).
Unix(t) == [q |-> t.days, r |-> t.secs]

Metric(volume, what, value) == [volume |-> volume, what |-> what, value |-> value]

\* Handler.LaunchDuplicity runs one worker and returns its exit code, its
\* output and an error.
LaunchDuplicityResults ==
    [ err : {NoErr, "launch failed"}, ExitCode : ExitCodes ]

\* The part shared by the five operations: the launch and util.CheckErr(err,
\* "Failed to launch Duplicity: %v", 1).
LaunchDuplicity(name, cmd, binds, r, logged) ==
    LET ce == checkErr(r.err, Report("launch", v.Name), 1) IN
    /\ prog = "volume" /\ pc = "idle"
    /\ op' = name
    /\ request' = [Cmd |-> cmd, Binds |-> binds]
    /\ launches' = launches + 1
    /\ reports' = reports \cup ce.logged \cup logged
    /\ IF ce.exits
       THEN pc' = "exited" /\ exitCode' = ce.code
       ELSE pc' = "returned" /\ UNCHANGED exitCode
    /\ UNCHANGED <<prog, env, v>>
    /\ UNCHANGED mainVars
    /\ UNCHANGED resticVars

\* Volume.Backup
Volume_Backup ==
    /\ prog = "volume" /\ pc = "idle"
    /\ \E r \in LaunchDuplicityResults :
       /\ LaunchDuplicity("Backup",
             << "--full-if-older-than", v.FullIfOlderThan, "--s3-use-new-style",
                "--ssh-options", "-oStrictHostKeyChecking=no", "--no-encryption",
                "--allow-source-mismatch", "--name", v.Name, v.BackupDir, v.Target >>,
             << v.Mount, cacheMount >>, r, {})
       /\ r.err # NoErr => r.ExitCode = 0
       /\ err' = r.err
       /\ state' = r.ExitCode
       /\ metrics' = IF r.err = NoErr
                     THEN << Metric(v.Name, "backupExitCode", r.ExitCode) >>
                     ELSE << >>
       /\ UNCHANGED stdout

\* Volume.RemoveOld
Volume_RemoveOld ==
    /\ prog = "volume" /\ pc = "idle"
    /\ \E r \in LaunchDuplicityResults :
       /\ LaunchDuplicity("RemoveOld",
             << "remove-older-than", v.RemoveOlderThan, "--s3-use-new-style",
                "--ssh-options", "-oStrictHostKeyChecking=no", "--no-encryption",
                "--force", "--name", v.Name, v.Target >>,
             << cacheMount >>, r, {})
       /\ r.ExitCode = 0
       /\ err' = r.err
       /\ UNCHANGED <<state, stdout, metrics>>

\* Volume.Cleanup
Volume_Cleanup ==
    /\ prog = "volume" /\ pc = "idle"
    /\ \E r \in LaunchDuplicityResults :
       /\ LaunchDuplicity("Cleanup",
             << "cleanup", "--s3-use-new-style",
                "--ssh-options", "-oStrictHostKeyChecking=no", "--no-encryption",
                "--force", "--extra-clean", "--name", v.Name, v.Target >>,
             << cacheMount >>, r, {})
       /\ r.ExitCode = 0
       /\ err' = r.err
       /\ UNCHANGED <<state, stdout, metrics>>

\* Volume.Verify
Volume_Verify ==
    /\ prog = "volume" /\ pc = "idle"
    /\ \E r \in LaunchDuplicityResults :
       /\ LaunchDuplicity("Verify",
             << "verify", "--s3-use-new-style",
                "--ssh-options", "-oStrictHostKeyChecking=no", "--no-encryption",
                "--allow-source-mismatch", "--name", v.Name, v.Target, v.BackupDir >>,
             << v.Mount, cacheMount >>, r, {})
       /\ r.err # NoErr => r.ExitCode = 0
       /\ err' = r.err
       /\ state' = r.ExitCode
       /\ metrics' = IF r.err = NoErr
                     THEN << Metric(v.Name, "verifyExitCode", r.ExitCode) >>
                     ELSE << >>
       /\ UNCHANGED stdout

\* Mutant: the missing marker is not turned into an error.
parseFailureNil(what, name) == NoErr

\* Mutant: the two dates are swapped between the two metrics.
statusMetricsSwapped(name, chainEndTimeDate, fullBackupDate) ==
    << Metric(name, "lastBackup", Unix(fullBackupDate)),
       Metric(name, "lastFullBackup", Unix(chainEndTimeDate)) >>

\* errors.New(fmt.Sprintf("Failed to parse Duplicity output for %s of %v", ...))
parseFailure(what, name) ==
    "Failed to parse Duplicity output for " \o what \o " of " \o name

\* The two metrics Status returns, lines 167-174.
statusMetrics(name, chainEndTimeDate, fullBackupDate) ==
    << Metric(name, "lastBackup", Unix(chainEndTimeDate)),
       Metric(name, "lastFullBackup", Unix(fullBackupDate)) >>

\* The part of Volume.Status that follows the launch: what it returns for
\* the captured output.
StatusResult(name, out) ==
    LET fullBackup   == FindStringSubmatch("full", out)
        chainEndTime == FindStringSubmatch("chain", out)
    IN
    IF Len(fullBackup) = 0
    THEN [ metrics |-> << >>, logged |-> {},
           err |-> parseFailure("last full backup date", name) ]
    ELSE
    LET fullBackupDate == timeParse(TrimSpace(fullBackup[1]))
        ce1 == checkErr(fullBackupDate.err, Report("full backup date", name), NoExit)
    IN
    IF Len(chainEndTime) = 0
    THEN [ metrics |-> << >>, logged |-> ce1.logged,
           err |-> parseFailure("chain end time", name) ]
    ELSE
    LET chainEndTimeDate == timeParse(TrimSpace(chainEndTime[1]))
        ce2 == checkErr(chainEndTimeDate.err, Report("chain end time date", name), NoExit)
    IN
    [ metrics |-> statusMetrics(name, chainEndTimeDate.time, fullBackupDate.time),
      logged |-> ce1.logged \cup ce2.logged,
      err |-> chainEndTimeDate.err ]

\* Volume.Status
Volume_Status ==
    /\ prog = "volume" /\ pc = "idle"
    /\ \E r \in LaunchDuplicityResults, out \in Outputs :
       LET res == IF r.err # NoErr
                  THEN [metrics |-> << >>, logged |-> {}, err |-> r.err]
                  ELSE StatusResult(v.Name, out)
       IN
       /\ LaunchDuplicity("Status",
             << "collection-status", "--s3-use-new-style",
                "--ssh-options", "-oStrictHostKeyChecking=no", "--no-encryption",
                "--name", v.Name, v.Target >>,
             << v.Mount, cacheMount >>, r, res.logged)
       /\ r.ExitCode = 0
       /\ r.err # NoErr => out = << >>
       /\ stdout' = out
       /\ err' = res.err
       /\ metrics' = res.metrics
       /\ UNCHANGED state

VolumeNext ==
    \/ Volume_Backup
    \/ Volume_RemoveOld
    \/ Volume_Cleanup
    \/ Volume_Verify
    \/ Volume_Status

(***************************************************************************)
(* package engines: the Restic engine                                      *)
(***************************************************************************)
\* Mutant: the call sites ask Retry for one more attempt.
RetryAttemptsFour == 3 + 1

RetryAttempts == 3

Steps == {"init", "resticBackup", "verify"}

TargetURLs == {"s3://bucket", "S3://bucket", ":no-scheme"}

\* url.Parse followed by URL.String: the scheme is lowered; a URL without a
\* scheme before its first colon is refused.
urlParse(u) ==
    IF u = ":no-scheme" THEN [err |-> "missing protocol scheme", String |-> ""]
    ELSE [err |-> NoErr, String |-> "s3://bucket"]

ResticVolumes ==
    { [ Name |-> "data", Target |-> "", BackupDir |-> "sub", Mount |-> "",
        Mountpoint |-> "/mnt/data", FullIfOlderThan |-> "", RemoveOlderThan |-> "",
        TargetURL |-> u ] : u \in TargetURLs }

ResticOutputs ==
    { << >>, <<OtherLine>>, <<InitializedLine>>, <<OtherLine, InitializedLine>> }

\* strings.Contains(stdout, "already initialized")
ContainsAlreadyInitialized(out) ==
    \E k \in 1..Len(out) : out[k].marker = "already initialized"

\* The command of each step, as init, resticBackup and verify build it.
resticCmd(s, vol) ==
    IF s = "init" THEN <<"-r", vol.Target, "init">>
    ELSE IF s = "resticBackup" THEN <<"-r", vol.Target, "backup", vol.BackupDir>>
    ELSE <<"-r", vol.Target, "check">>

\* util.Retry(attempts, callback), after the callback has been invoked `done`
\* times and has just returned e: return nil, call it again, or give up with
\* the error of this attempt.
Retry(attempts, done, e) ==
    IF e = NoErr THEN "ok"
    ELSE IF done < attempts THEN "again"
    ELSE "failed"

\* A call to the container runtime and its outcome.
Call(name, result) == [call |-> name, result |-> result]
Outcome(e) == IF e = NoErr THEN "ok" ELSE "failed"

\* Retry invokes the step's function, which calls launchRestic: the named
\* results of launchRestic start from their zero values.
callStep(s, n, vol) ==
    /\ step' = s
    /\ attempt' = n
    /\ calls' = [calls EXCEPT ![s] = @ + 1]
    /\ request' = [Cmd |-> resticCmd(s, vol), Binds |-> <<vol.Mount>>]
    /\ launches' = launches + 1
    /\ state' = 0
    /\ stdout' = << >>
    /\ err' = NoErr
    /\ polls' = 0
    /\ worker' = "none"
    /\ tick' = FALSE
    /\ trace' = << >>
    /\ pc' = "PullImage"

\* ResticEngine.Backup, lines 131-133: the three fields Backup assigns in
\* the Volume the engine points to.
setVolume(vol, targetURL) ==
    [vol EXCEPT !.Target = targetURL.String,
                !.BackupDir = vol.Mountpoint \o "/" \o vol.BackupDir,
                !.Mount = vol.Name \o ":" \o vol.Mountpoint \o ":ro"]

\* ResticEngine.Backup, lines 121-135: the target URL, the three fields of
\* the volume, and the first call of r.init by Retry.
ResticEngine_Backup ==
    /\ prog = "restic" /\ pc = "Backup"
    /\ LET targetURL == urlParse(v.TargetURL) IN
       IF targetURL.err # NoErr
       THEN /\ err' = "failed to parse target URL"
            /\ pc' = "returned"
            /\ UNCHANGED <<v, step, attempt, calls, request, launches, state, stdout, polls,
                           worker, tick, trace>>
       ELSE /\ v' = setVolume(v, targetURL)
            /\ callStep("init", 1, v')
    /\ UNCHANGED <<prog, env, op, metrics, reports, exitCode, container, created, removed,
                   pulled, image, fails, retried, scheduled, lastCheck>>
    /\ UNCHANGED <<vols, i, voll, entered, inspectFailed>>

\* launchRestic, lines 246-250: util.PullImage
launchRestic_PullImage ==
    /\ prog = "restic" /\ pc = "PullImage"
    /\ \E ie \in {NoErr, "InspectImage failed"}, pe \in {NoErr, "PullImage failed"} :
          LET r == pullImage(ie, pe) IN
          /\ pulled' = r.pulled
          /\ image' = [inspect |-> ie, pull |-> IF r.pulled THEN pe ELSE NotCalled]
          /\ trace' = trace \o << Call("InspectImage", Outcome(ie)) >>
                             \o ( IF r.pulled THEN << Call("PullImage", Outcome(pe)) >>
                                  ELSE << >> )
          /\ IF r.err # NoErr
             THEN err' = "failed to pull image" /\ pc' = "return"
             ELSE err' = NoErr /\ pc' = "ContainerCreate"
    /\ UNCHANGED <<prog, env, v, op, request, launches, state, stdout, metrics, reports,
                   exitCode, container, created, removed>>
    /\ UNCHANGED <<step, attempt, polls, calls, fails, retried, scheduled, lastCheck,
                   worker, tick>>
    /\ UNCHANGED <<vols, i, voll, entered, inspectFailed>>

\* launchRestic, lines 270-291: ContainerCreate and the deferred removal
launchRestic_ContainerCreate ==
    /\ prog = "restic" /\ pc = "ContainerCreate"
    /\ \E e \in {NoErr, "ContainerCreate failed"} :
          /\ trace' = Append(trace, Call("ContainerCreate", Outcome(e)))
          /\ IF e # NoErr
             THEN /\ err' = "failed to create container"
                  /\ pc' = "return"
                  /\ UNCHANGED <<container, created, worker>>
             ELSE /\ err' = NoErr
                  /\ pc' = "ContainerStart"
                  /\ created' = created + 1
                  /\ worker' = "created"
                  /\ container' = [ ID |-> created + 1, vol |-> 0, Cmd |-> request.Cmd,
                                    started |-> FALSE, removes |-> 0, ExitCode |-> 0 ]
    /\ UNCHANGED <<prog, env, v, op, request, launches, state, stdout, metrics, reports,
                   exitCode, removed, pulled, image>>
    /\ UNCHANGED <<step, attempt, polls, calls, fails, retried, scheduled, lastCheck, tick>>
    /\ UNCHANGED <<vols, i, voll, entered, inspectFailed>>

\* launchRestic, lines 293-298: ContainerStart
launchRestic_ContainerStart ==
    /\ prog = "restic" /\ pc = "ContainerStart"
    /\ \E e \in {NoErr, "ContainerStart failed"} :
          /\ trace' = Append(trace, Call("ContainerStart", Outcome(e)))
          /\ IF e # NoErr
             THEN /\ err' = "failed to start container"
                  /\ pc' = "deferred"
                  /\ UNCHANGED <<container, worker>>
             ELSE /\ err' = NoErr
                  /\ pc' = "ContainerInspect"
                  /\ worker' = "running"
                  /\ container' = [container EXCEPT !.started = TRUE]
    /\ UNCHANGED <<prog, env, v, op, request, launches, state, stdout, metrics, reports,
                   exitCode, created, removed, pulled, image>>
    /\ UNCHANGED <<step, attempt, polls, calls, fails, retried, scheduled, lastCheck, tick>>
    /\ UNCHANGED <<vols, i, voll, entered, inspectFailed>>

\* The worker ends: the tool has finished with an exit code.  Nothing makes
\* this happen: a hung tool never ends.
worker_Exit ==
    /\ prog = "restic" /\ worker = "running"
    /\ \E code \in ExitCodes :
          container' = [container EXCEPT !.ExitCode = code]
    /\ worker' = "exited"
    /\ UNCHANGED <<prog, pc, env, v, op, request, launches, state, stdout, err, metrics,
                   reports, exitCode, created, removed, pulled, image>>
    /\ UNCHANGED <<step, attempt, polls, calls, fails, retried, scheduled, lastCheck,
                   tick, trace>>
    /\ UNCHANGED <<vols, i, voll, entered, inspectFailed>>

\* Mutant: a failed inspection is taken for a worker that is still running.
pollStepFailureAsRunning(e, status) ==
    IF e = NoErr /\ status = "exited" THEN "ContainerLogs" ELSE "ContainerInspect"

\* Mutant: the loop does not wait for the status "exited".
pollStepNoWait(e, status) ==
    IF e # NoErr THEN "deferred" ELSE "ContainerLogs"

\* launchRestic, lines 301-312: where one round of the polling loop leads,
\* for the error and the status ContainerInspect returned.
pollStep(e, status) ==
    IF e # NoErr THEN "deferred"
    ELSE IF status = "exited" THEN "ContainerLogs"
    ELSE "ContainerInspect"

\* Mutant: the exit code of the inspection is not kept.
stateKept(cont, old) == old

\* launchRestic, lines 308-311: the state kept from an inspection.
stateFrom(cont, old) ==
    IF cont.Status = "exited" THEN cont.ExitCode ELSE old

\* launchRestic, lines 301-312: one round of the polling loop.  The rounds
\* are counted, and traced, up to MaxPolls; a round that leaves the worker
\* running flips tick.
launchRestic_ContainerInspect ==
    /\ prog = "restic" /\ pc = "ContainerInspect"
    /\ \E e \in {NoErr, "ContainerInspect failed"} :
          LET cont == [Status |-> worker, ExitCode |-> container.ExitCode] IN
          /\ pc' = pollStep(e, cont.Status)
          /\ polls' = IF polls < MaxPolls THEN polls + 1 ELSE polls
          /\ IF e # NoErr
             THEN /\ err' = "failed to inspect container"
                  /\ trace' = Append(trace, Call("ContainerInspect", "failed"))
                  /\ tick' = FALSE
                  /\ UNCHANGED state
             ELSE IF cont.Status = "exited"
             THEN /\ err' = NoErr
                  /\ state' = stateFrom(cont, state)
                  /\ trace' = Append(trace, Call("ContainerInspect", "exited"))
                  /\ tick' = FALSE
             ELSE /\ err' = NoErr
                  /\ state' = stateFrom(cont, state)
                  /\ trace' = IF polls < MaxPolls
                              THEN Append(trace, Call("ContainerInspect", cont.Status))
                              ELSE trace
                  /\ tick' = ~tick
    /\ UNCHANGED <<prog, env, v, op, request, launches, stdout, metrics, reports,
                   exitCode, container, created, removed, pulled, image>>
    /\ UNCHANGED <<step, attempt, calls, fails, retried, scheduled, lastCheck, worker>>
    /\ UNCHANGED <<vols, i, voll, entered, inspectFailed>>

\* launchRestic, lines 314-323: ContainerLogs
launchRestic_ContainerLogs ==
    /\ prog = "restic" /\ pc = "ContainerLogs"
    /\ \E e \in {NoErr, "ContainerLogs failed"} :
          /\ trace' = Append(trace, Call("ContainerLogs", Outcome(e)))
          /\ IF e # NoErr
             THEN err' = "failed to retrieve logs" /\ pc' = "deferred"
             ELSE err' = NoErr /\ pc' = "ReadAll"
    /\ UNCHANGED <<prog, env, v, op, request, launches, state, stdout, metrics, reports,
                   exitCode, container, created, removed, pulled, image>>
    /\ UNCHANGED <<step, attempt, polls, calls, fails, retried, scheduled, lastCheck,
                   worker, tick>>
    /\ UNCHANGED <<vols, i, voll, entered, inspectFailed>>

\* launchRestic, lines 324-333: ioutil.ReadAll and the decoded output
launchRestic_ReadAll ==
    /\ prog = "restic" /\ pc = "ReadAll"
    /\ \E e \in {NoErr, "ReadAll failed"}, content \in ResticOutputs :
          /\ e # NoErr => content = << >>
          /\ trace' = Append(trace, Call("ReadAll", Outcome(e)))
          /\ IF e # NoErr
             THEN err' = "failed to read logs from response" /\ UNCHANGED stdout
             ELSE err' = NoErr /\ stdout' = content
    /\ pc' = "deferred"
    /\ UNCHANGED <<prog, env, v, op, request, launches, state, metrics, reports,
                   exitCode, container, created, removed, pulled, image>>
    /\ UNCHANGED <<step, attempt, polls, calls, fails, retried, scheduled, lastCheck,
                   worker, tick>>
    /\ UNCHANGED <<vols, i, voll, entered, inspectFailed>>

\* launchRestic returns: the deferred util.RemoveContainer of line 291 runs
\* when the function was left after the defer statement.
launchRestic_Return ==
    /\ prog = "restic" /\ pc \in {"return", "deferred"}
    /\ IF pc = "deferred"
       THEN /\ container' = RemoveContainer(container)
            /\ removed' = removed + (container'.removes - container.removes)
            /\ worker' = IF container'.removes > container.removes THEN "removed" ELSE worker
            /\ trace' = IF container'.removes > container.removes
                        THEN Append(trace, Call("RemoveContainer", "ok"))
                        ELSE trace
       ELSE UNCHANGED <<container, removed, worker, trace>>
    /\ pc' = step
    /\ polls' = 0
    /\ UNCHANGED <<prog, env, v, op, request, launches, state, stdout, err, metrics, reports,
                   exitCode, created, pulled, image>>
    /\ UNCHANGED <<step, attempt, calls, fails, retried, scheduled, lastCheck, tick>>
    /\ UNCHANGED <<vols, i, voll, entered, inspectFailed>>

\* Mutant: init does not look for "already initialized" in the output.
initResultStrict(st, out, e) ==
    IF e # NoErr THEN "failed to launch Restic to initialize the repository"
    ELSE IF st # 0 THEN "Restic existed with state while initializing repository"
    ELSE NoErr

\* What init returns for the results of launchRestic, lines 170-182.
initResult(st, out, e) ==
    IF ContainsAlreadyInitialized(out) THEN NoErr
    ELSE IF e # NoErr THEN "failed to launch Restic to initialize the repository"
    ELSE IF st # 0 THEN "Restic existed with state while initializing repository"
    ELSE NoErr

\* Mutant: resticBackup looks at the exit code only.
resticBackupResultStateOnly(st, e) ==
    IF st # 0 THEN "Restic exited with state while backuping the volume" ELSE NoErr

\* What resticBackup returns for the results of launchRestic, lines 199-205.
resticBackupResult(st, e) ==
    IF st # 0 THEN "Restic exited with state while backuping the volume"
    ELSE IF e # NoErr THEN "failed to launch Restic to backup the volume"
    ELSE NoErr

\* verify, lines 221-241, for the results of launchRestic and the result of
\* metric.UpdateEvent: the error returned, whether the time of the last check
\* is touched, and the metric sent.
verifyResult(st, e, updateErr, name) ==
    IF e # NoErr
    THEN [ err |-> "failed to launch Restic to check the backup",
           touched |-> FALSE, metrics |-> << >> ]
    ELSE [ err |-> updateErr,
           touched |-> (st = 0),
           metrics |-> << Metric(name, "conplicity_verifyExitCode", st) >> ]

\* Backup returns e.
returnBackup(e) ==
    /\ pc' = "returned"
    /\ err' = e
    /\ UNCHANGED <<step, attempt, calls, request, launches, state, stdout, polls,
                   worker, tick, trace>>

\* Handler.IsCheckScheduled(v) returns whether a verification of the volume
\* is due, and an error.
IsCheckScheduledResults ==
    [ due : BOOLEAN, err : {NoErr, "IsCheckScheduled failed"} ]

\* ResticEngine.Backup after Retry has returned nil for step s, lines 136-154.
\* The verification runs when IsCheckScheduled returns no error; the boolean
\* it returns is dropped.
proceed(s) ==
    IF s = "init"
    THEN callStep("resticBackup", 1, v) /\ UNCHANGED scheduled
    ELSE IF s = "resticBackup"
    THEN \E r \in IsCheckScheduledResults :
            /\ scheduled' = [asked |-> TRUE, due |-> r.due, err |-> r.err]
            /\ IF r.err = NoErr
               THEN callStep("verify", 1, v)
               ELSE returnBackup(NoErr)
    ELSE returnBackup(NoErr) /\ UNCHANGED scheduled

\* Mutant: Backup returns nil when Retry gives up on a step.
backupErrorNil(s) == NoErr

\* The error Backup returns when Retry gives up on step s.
backupError(s) ==
    IF s = "init" THEN "failed to create a secure bucket"
    ELSE IF s = "resticBackup" THEN "failed to backup the volume"
    ELSE "failed to verify backup"

\* The step's function has returned e to Retry.
afterStep(s, e) ==
    LET r == Retry(RetryAttempts, attempt, e) IN
    /\ fails' = IF e # NoErr THEN [fails EXCEPT ![s] = @ + 1] ELSE fails
    /\ retried' = IF r = "again" THEN retried ELSE [retried EXCEPT ![s] = r]
    /\ IF r = "again"
       THEN callStep(s, attempt + 1, v) /\ UNCHANGED scheduled
       ELSE IF r = "failed"
       THEN returnBackup(backupError(s)) /\ UNCHANGED scheduled
       ELSE proceed(s)

\* ResticEngine.init, after launchRestic
ResticEngine_init ==
    /\ prog = "restic" /\ pc = "init"
    /\ afterStep("init", initResult(state, stdout, err))
    /\ UNCHANGED <<prog, env, v, op, metrics, reports, exitCode, container, created,
                   removed, pulled, image, lastCheck>>
    /\ UNCHANGED <<vols, i, voll, entered, inspectFailed>>

\* ResticEngine.resticBackup, after launchRestic
ResticEngine_resticBackup ==
    /\ prog = "restic" /\ pc = "resticBackup"
    /\ afterStep("resticBackup", resticBackupResult(state, err))
    /\ UNCHANGED <<prog, env, v, op, metrics, reports, exitCode, container, created,
                   removed, pulled, image, lastCheck>>
    /\ UNCHANGED <<vols, i, voll, entered, inspectFailed>>

\* ResticEngine.verify, after launchRestic
ResticEngine_verify ==
    /\ prog = "restic" /\ pc = "verify"
    /\ \E updateErr \in {NoErr, "UpdateEvent failed"} :
          LET res == verifyResult(state, err, updateErr, v.Name) IN
          /\ err # NoErr => updateErr = NoErr
          /\ lastCheck' = (lastCheck \/ res.touched)
          /\ metrics' = metrics \o res.metrics
          /\ afterStep("verify", res.err)
    /\ UNCHANGED <<prog, env, v, op, reports, exitCode, container, created,
                   removed, pulled, image>>
    /\ UNCHANGED <<vols, i, voll, entered, inspectFailed>>

\* The steps of the control thread.
ResticControl ==
    \/ ResticEngine_Backup
    \/ launchRestic_PullImage
    \/ launchRestic_ContainerCreate
    \/ launchRestic_ContainerStart
    \/ launchRestic_ContainerInspect
    \/ launchRestic_ContainerLogs
    \/ launchRestic_ReadAll
    \/ launchRestic_Return
    \/ ResticEngine_init
    \/ ResticEngine_resticBackup
    \/ ResticEngine_verify

ResticNext == ResticControl \/ worker_Exit

(***************************************************************************)
(* Specification.                                                          *)
(***************************************************************************)
Init ==
    /\ prog \in {"main", "volume", "restic"}
    /\ pc = IF prog = "main" THEN "main"
            ELSE IF prog = "volume" THEN "idle" ELSE "Backup"
    /\ env \in IF prog = "main" THEN Environments ELSE {NoEnvironment}
    /\ vols = << >>
    /\ i = 1
    /\ voll = NilVolume
    /\ err = NoErr
    /\ container = NoContainer
    /\ created = 0
    /\ removed = 0
    /\ entered = {}
    /\ inspectFailed = {}
    /\ reports = {}
    /\ exitCode = NoExit
    /\ pulled = FALSE
    /\ image = NoImage
    /\ v \in IF prog = "volume" THEN DuplicityVolumes
              ELSE IF prog = "restic" THEN ResticVolumes ELSE {NoVolume}
    /\ op = "none"
    /\ request = NoRequest
    /\ launches = 0
    /\ state = 0
    /\ stdout = << >>
    /\ metrics = << >>
    /\ step = "none"
    /\ attempt = 0
    /\ polls = 0
    /\ calls = [s \in Steps |-> 0]
    /\ fails = [s \in Steps |-> 0]
    /\ retried = [s \in Steps |-> "pending"]
    /\ scheduled = [asked |-> FALSE, due |-> FALSE, err |-> NoErr]
    /\ lastCheck = FALSE
    /\ worker = "none"
    /\ tick = FALSE
    /\ trace = << >>

Next == MainNext \/ VolumeNext \/ ResticNext

Spec == Init /\ [][Next]_vars

\* The Restic engine alone, with a control thread that always takes its next
\* step: every call it makes returns.  Nothing is assumed of the worker.
ResticInit == Init /\ prog = "restic"

FairSpec == ResticInit /\ [][ResticNext]_vars /\ WF_vars(ResticControl)

(***************************************************************************)
(* Properties.                                                             *)
(***************************************************************************)
\* The volume the last InspectVolume call was made for.
lastInspected == IF pc \in {"loop", "done"} THEN i - 1 ELSE i

\* Whether a failure of kind `what` was logged for volume k.
Reported(what, k) == Report(what, k) \in reports

\* Label lookups as the documentation words them: a label is carried or not.
Carries(vol, key) == key \in DOMAIN vol.Labels
IgnoreLabel == "io.conplicity.ignore"
FullIfOlderThanLabel == "io.conplicity.full_if_older_than"

\* The argument that follows a flag in a command.
ArgAfter(cmd, flag) ==
    cmd[(CHOOSE k \in 1..Len(cmd) : cmd[k] = flag) + 1]

\* C1: batch isolation.  When the run has ended and the volumes were listed,
\* the image was available, every inspection succeeded and nothing panicked,
\* so that only per-volume failures (create, start, tool exit) can have
\* occurred, backupVolume has been called for every volume of the list.
C1_BatchIsolation ==
    ( /\ prog = "main"
      /\ pc \in Terminal
      /\ ~Reported("list", 0) /\ ~Reported("image", 0)
      /\ inspectFailed = {}
      /\ err # Panic )
    => entered = 1..Len(vols)

\* The launching operation holds a worker it has created and not yet removed.
HoldsWorker ==
    \/ prog = "main" /\ pc \in {"Start", "deferred"}
    \/ prog = "restic" /\ pc \in {"ContainerStart", "ContainerInspect", "ContainerLogs",
                                  "ReadAll", "deferred"}

\* C2: worker removal is invoked exactly once for every worker that was
\* created, on every exit path of the launching operation.  No worker is ever
\* removed twice; while the operation holds its worker the worker has not been
\* removed; once the operation has been left (return, failure or panic) every
\* worker created so far has been removed exactly once.
C2_RemovedExactlyOnce ==
    prog \in {"main", "restic"} =>
       /\ container.removes <= 1
       /\ HoldsWorker => container.ID = created /\ container.removes = 0
                         /\ removed = created - 1
       /\ ~HoldsWorker => removed = created
                          /\ (container.ID # 0 => container.removes = 1)

\* C2 witness: a panic of the operation after the worker was created, and the
\* worker removed once.
C2_Witness ==
    /\ prog = "main" /\ pc = "crashed" /\ err = Panic
    /\ container.ID = 1 /\ container.removes = 1 /\ removed = 1

\* C3: exit-code classification.  An operation that reports an exit code has
\* returned: its metric carries the code, and an error is returned exactly
\* when the code is not 0.
C3_ExitCodeClassification ==
    /\ ( prog = "volume" /\ pc = "returned" /\ op \in {"Backup", "Verify"} )
       => /\ Len(metrics) = 1 /\ metrics[1].value = state
          /\ (state = 0 => err = NoErr)
          /\ (state # 0 => err # NoErr)
    /\ ( prog = "restic" /\ retried["verify"] # "pending" /\ Len(metrics) > 0 )
       => ( metrics[Len(metrics)].value # 0 => retried["verify"] = "failed" )

C5_UnnamedSkipped ==
    prog = "main" =>
       \A k \in 1..Len(vols) :
          vols[k].runes = 64 =>
             /\ container.vol # k
             /\ ~Reported("create", k) /\ ~Reported("start", k) /\ ~Reported("process", k)
             /\ (k \in entered /\ k \notin inspectFailed) =>
                   /\ i > k
                   /\ (pc \in {"loop", "done"} /\ i = k + 1) => err = NoErr

\* C5 witness: backupVolume has returned for a volume of 64 characters that
\* is 66 bytes long and carries labels, and the loop is at the next volume.
C5_Witness ==
    /\ prog = "main" /\ pc = "loop" /\ i = 2
    /\ vols[1].runes = 64 /\ vols[1].bytes = 66
    /\ 1 \in entered /\ ~voll.isNil
    /\ Carries(voll, FullIfOlderThanLabel)
    /\ created = 0 /\ err = NoErr

\* C6: a volume that carries io.conplicity.ignore = "true" is skipped: no
\* worker is created for it and backupVolume returns no error; a volume
\* without the label, or with another value of it, whose name is not 64
\* characters long is not skipped: CreateContainer is called for it.
C6_IgnoreLabel ==
    ( prog = "main" /\ ~voll.isNil /\ lastInspected \in entered ) =>
       /\ ( Carries(voll, IgnoreLabel) /\ voll.Labels[IgnoreLabel] = "true" ) =>
             /\ container.vol # lastInspected
             /\ ~Reported("create", lastInspected)
             /\ ~Reported("process", lastInspected)
             /\ pc \in {"loop", "done"} /\ err = NoErr
       /\ ( /\ ~Carries(voll, IgnoreLabel) \/ voll.Labels[IgnoreLabel] # "true"
            /\ voll.Name.runes # 64 ) =>
             \/ container.vol = lastInspected
             \/ Reported("create", lastInspected) /\ pc = "exited"

\* C6 witness: backupVolume has returned for a named volume labelled
\* ignore=true.
C6_Witness ==
    /\ prog = "main" /\ pc = "loop" /\ i = 2 /\ 1 \in entered /\ ~voll.isNil
    /\ Carries(voll, IgnoreLabel) /\ voll.Labels[IgnoreLabel] = "true"
    /\ voll.Name.runes # 64
    /\ created = 0

\* The worker of the volume inspected last has been created.
WorkerOfLastInspected ==
    /\ prog = "main" /\ ~voll.isNil
    /\ container.ID # 0 /\ container.vol = lastInspected

\* C7 as stated: the value after --full-if-older-than is the value of the
\* label whenever the label is present, the global default whenever it is
\* absent.
C7_RetentionOverride_Original ==
    WorkerOfLastInspected =>
       ArgAfter(container.Cmd, "--full-if-older-than") =
          IF Carries(voll, FullIfOlderThanLabel)
          THEN voll.Labels[FullIfOlderThanLabel]
          ELSE env.FullIfOlderThan

\* C7 as amended: the value after --full-if-older-than is the value of the
\* label whenever the label is present with a non-empty value, and the global
\* default whenever the label is absent or empty.
C7_RetentionOverride ==
    WorkerOfLastInspected =>
       ArgAfter(container.Cmd, "--full-if-older-than") =
          IF Carries(voll, FullIfOlderThanLabel) /\ voll.Labels[FullIfOlderThanLabel] # ""
          THEN voll.Labels[FullIfOlderThanLabel]
          ELSE env.FullIfOlderThan

\* C7 witness: a worker created for a volume that carries the override.
C7_Witness ==
    /\ WorkerOfLastInspected
    /\ Carries(voll, FullIfOlderThanLabel) /\ voll.Labels[FullIfOlderThanLabel] = "7D"
    /\ ArgAfter(container.Cmd, "--full-if-older-than") = "7D"

\* Status has returned to its caller.
StatusReturned == prog = "volume" /\ op = "Status" /\ pc = "returned"

\* The output holds no line with the marker.
Lacks(out, marker) == \A k \in 1..Len(out) : out[k].marker # marker

\* The output holds no line with the marker and some text after it.
GivesNoValue(out, marker) ==
    \A k \in 1..Len(out) :
       out[k].marker = marker => (out[k].body = Empty /\ out[k].trail = "")

\* C8: Status on output that lacks the "Chain end time" marker or the "Last
\* full backup date" marker returns an error and no metrics, and has launched
\* one worker.  The error names the volume and a marker the output gives no
\* value for: the one that is absent when only one is, and then the marker of
\* the last full backup date only if the output gives no value for it either.
C8_StatusMissingMarker ==
    ( StatusReturned /\ (Lacks(stdout, "chain") \/ Lacks(stdout, "full")) ) =>
       /\ err # NoErr
       /\ metrics = << >>
       /\ launches = 1
       /\ \/ /\ err = "Failed to parse Duplicity output for last full backup date of " \o v.Name
             /\ GivesNoValue(stdout, "full")
          \/ /\ err = "Failed to parse Duplicity output for chain end time of " \o v.Name
             /\ Lacks(stdout, "chain")
       /\ Lacks(stdout, "full") =>
             err = "Failed to parse Duplicity output for last full backup date of " \o v.Name

\* C8 witness: the output gives the date of the last full backup and lacks
\* the chain end time.
C8_Witness ==
    /\ StatusReturned
    /\ Lacks(stdout, "chain") /\ ~Lacks(stdout, "full") /\ ~GivesNoValue(stdout, "full")
    /\ err = "Failed to parse Duplicity output for chain end time of " \o v.Name
    /\ metrics = << >> /\ launches = 1

\* The timestamps that are dates of the calendar, with their epoch seconds.
Parseable == { Stamp(1970, 1, 1, 0, 0, 0), Stamp(2006, 1, 2, 15, 4, 5),
               Stamp(2016, 2, 29, 23, 59, 59) }
EpochSeconds(stamp) ==
    IF stamp = Stamp(1970, 1, 1, 0, 0, 0) THEN 0
    ELSE IF stamp = Stamp(2006, 1, 2, 15, 4, 5) THEN 1136214245
    ELSE 1456790399

\* The text after the first line that carries the marker with some text.
ValueOf(out, marker) ==
    LET ks == { k \in 1..Len(out) :
                  out[k].marker = marker /\ ~(out[k].body = Empty /\ out[k].trail = "") }
    IN  out[CHOOSE k \in ks : \A j \in ks : k <= j].body

\* The output gives a parseable timestamp for the marker.
GivesParseable(out, marker) ==
    ~GivesNoValue(out, marker) /\ ValueOf(out, marker) \in Parseable

\* C9: Status on output that gives a parseable timestamp t1 for "Last full
\* backup date" and a parseable timestamp t2 for "Chain end time" (for each
\* marker, the first line that carries it with text) returns no error and
\* two metrics labelled with the volume: lastBackup with the epoch seconds
\* of t2, then lastFullBackup with the epoch seconds of t1.
C9_StatusMetrics ==
    ( StatusReturned /\ GivesParseable(stdout, "full") /\ GivesParseable(stdout, "chain") ) =>
       /\ err = NoErr
       /\ Len(metrics) = 2
       /\ metrics[1].what = "lastBackup" /\ metrics[1].volume = v.Name
       /\ metrics[1].value.q * 86400 + metrics[1].value.r
             = EpochSeconds(ValueOf(stdout, "chain"))
       /\ metrics[2].what = "lastFullBackup" /\ metrics[2].volume = v.Name
       /\ metrics[2].value.q * 86400 + metrics[2].value.r
             = EpochSeconds(ValueOf(stdout, "full"))

\* C9 witness: the two timestamps differ, and the lines end as a terminal
\* ends them.
C9_Witness ==
    /\ StatusReturned /\ Len(stdout) = 2
    /\ stdout[1] = [marker |-> "chain", body |-> Stamp(2016, 2, 29, 23, 59, 59), trail |-> "\r"]
    /\ stdout[2] = [marker |-> "full", body |-> Stamp(2006, 1, 2, 15, 4, 5), trail |-> "\r"]
    /\ Len(metrics) = 2 /\ err = NoErr

\* C10: a failure while listing volumes, inspecting a volume or ensuring the
\* image is fatal to the run.  After a failed listing or a failed image check
\* the process has exited with a failure and has created no worker; a volume
\* whose inspection failed is not handed to backupVolume.
C10_DiscoveryFailureFatal ==
    prog = "main" =>
       /\ (Reported("list", 0) \/ Reported("image", 0)) =>
             pc = "exited" /\ exitCode # 0 /\ created = 0 /\ entered = {}
       /\ \A k \in inspectFailed : k \notin entered

\* C11: a missing destination URL is detected as a configuration error before
\* any volume is processed.  With no destination URL in the environment the
\* run never reaches the loop over the volumes: backupVolume is called for no
\* volume, no worker is created, and the run does not end as a completed one.
C11_ConfigurationError ==
    ( prog = "main" /\ env.DuplicityTargetURL = "" ) =>
       /\ created = 0
       /\ entered = {}
       /\ pc \notin {"loop", "backupVolume", "Start", "deferred", "done"}

\* Retry has returned nil for step s.
Succeeded(s) == retried[s] = "ok"

\* Retry has given up on step s.
Exhausted(s) == retried[s] = "failed"

\* The steps that follow step s in Backup.
LaterSteps(s) ==
    IF s = "init" THEN {"resticBackup", "verify"}
    ELSE IF s = "resticBackup" THEN {"verify"}
    ELSE {}

\* C12: Backup runs init, backup, verify in this order, each under its own
\* Retry.  The backup step is launched only after init has succeeded and
\* verify only after the backup step has succeeded; when a step has exhausted
\* its retries no later step has run and Backup has returned an error; and a
\* step Retry has returned from is never invoked again.
C12_StepOrder ==
    /\ [] ( prog = "restic" =>
             /\ calls["resticBackup"] > 0 => Succeeded("init")
             /\ calls["verify"] > 0 => Succeeded("resticBackup")
             /\ \A s \in Steps :
                   Exhausted(s) =>
                      /\ \A t \in LaterSteps(s) : calls[t] = 0
                      /\ pc = "returned" /\ err # NoErr )
    /\ [][ \A s \in Steps : retried[s] # "pending" => calls'[s] = calls[s] ]_vars

\* C12 witness: init and the backup step succeeded, the backup step at its
\* second invocation, and verify exhausted its retries.
C12_Witness ==
    /\ prog = "restic" /\ pc = "returned"
    /\ Succeeded("init") /\ Succeeded("resticBackup") /\ calls["resticBackup"] = 2
    /\ Exhausted("verify") /\ calls["verify"] = 3 /\ err # NoErr

\* C13: verification is invoked after a successful backup if and only if the
\* scheduling check reports that a verification is due.  Once Backup has asked
\* IsCheckScheduled: when the answer is "not due" no verify worker is
\* launched, and when the answer is "due" the verification is invoked.
C13_VerifyOnlyWhenDue ==
    ( prog = "restic" /\ scheduled.asked ) =>
       /\ ~scheduled.due => calls["verify"] = 0
       /\ ( scheduled.due /\ scheduled.err = NoErr ) => calls["verify"] > 0

\* launchRestic has returned to the step that called it.
LaunchReturned == prog = "restic" /\ pc \in Steps

\* The calls of the trace, by name and by outcome.
Requested(name) == \E k \in 1..Len(trace) : trace[k].call = name
Observed(name, result) == \E k \in 1..Len(trace) : trace[k] = Call(name, result)

\* C14: an inspection failure during polling is a launch error, not "still
\* running".  After a failed ContainerInspect launchRestic makes no further
\* call but the removal of the worker: it does not inspect again and never
\* requests the logs; it returns a non-nil error, and when it has returned
\* the worker has been removed.
C14_InspectFailureStopsPolling ==
    prog = "restic" =>
       \A k \in 1..Len(trace) :
          trace[k] = Call("ContainerInspect", "failed") =>
             /\ ~Requested("ContainerLogs") /\ ~Requested("ReadAll")
             /\ \A j \in (k + 1)..Len(trace) : trace[j].call = "RemoveContainer"
             /\ err # NoErr
             /\ IF pc = "deferred"
                THEN Len(trace) = k /\ container.removes = 0
                ELSE /\ Len(trace) = k + 1
                     /\ container.removes = 1 /\ removed = created
                     /\ worker = "removed"

\* C14 witness: the second inspection of a running worker failed, and
\* launchRestic has returned its error.
C14_Witness ==
    /\ LaunchReturned
    /\ Observed("ContainerInspect", "running") /\ Observed("ContainerInspect", "failed")
    /\ err = "failed to inspect container"
    /\ worker = "removed" /\ container.removes = 1

\* C15: termination of the polling wait.  Every launch returns unless its
\* worker stays "running" for ever, so it returns when the worker comes to
\* report "exited".  The polling loop is left only by an inspection that
\* reports "exited" or fails: while the worker is running and the inspections
\* succeed, launchRestic stays in the loop and no step is invoked.
C15_PollingTermination ==
    /\ ( pc = "PullImage" ) ~>
          ( LaunchReturned \/ [] ( pc = "ContainerInspect" /\ worker = "running" ) )
    /\ [][ ( pc = "ContainerInspect" /\ pc' # "ContainerInspect" ) =>
              \/ worker = "exited" /\ pc' = "ContainerLogs"
              \/ err' = "failed to inspect container" /\ pc' = "deferred" ]_vars
    /\ [][ ( pc = "ContainerInspect" /\ pc' = "ContainerInspect" ) =>
              calls' = calls /\ launches' = launches ]_vars

\* C15 witness: the worker of the backup step is still running after
\* MaxPolls successful inspections, and launchRestic is in its loop.
C15_Witness ==
    /\ prog = "restic" /\ pc = "ContainerInspect" /\ step = "resticBackup"
    /\ worker = "running" /\ polls = MaxPolls /\ err = NoErr

\* The place of a runtime call in the order of launchRestic.
Rank(name) ==
    CASE name = "InspectImage"     -> 1
      [] name = "PullImage"        -> 2
      [] name = "ContainerCreate"  -> 3
      [] name = "ContainerStart"   -> 4
      [] name = "ContainerInspect" -> 5
      [] name = "ContainerLogs"    -> 6
      [] name = "ReadAll"          -> 7
      [] name = "RemoveContainer"  -> 8

\* The calls of a launch that met no failure: the image check, the creation,
\* the start, n inspections of a running worker and one of an exited worker,
\* the request of the logs, their reading, the removal.
IsSuccessfulLaunch(t) ==
    LET k == CHOOSE j \in 1..Len(t) : t[j].call = "ContainerCreate" IN
    /\ Requested("ContainerCreate")
    /\ Len(t) >= k + 5
    /\ t[1].call = "InspectImage"
    /\ k \in {2, 3} /\ (k = 3 => t[2] = Call("PullImage", "ok"))
    /\ t[k] = Call("ContainerCreate", "ok")
    /\ t[k + 1] = Call("ContainerStart", "ok")
    /\ \A j \in (k + 2)..(Len(t) - 4) : t[j] = Call("ContainerInspect", "running")
    /\ t[Len(t) - 3] = Call("ContainerInspect", "exited")
    /\ t[Len(t) - 2] = Call("ContainerLogs", "ok")
    /\ t[Len(t) - 1] = Call("ReadAll", "ok")
    /\ t[Len(t)] = Call("RemoveContainer", "ok")

\* C16: ordering of one launch.  The runtime calls are made in the order
\* image check, create, start, inspect, logs, read, remove, each at most once
\* but the inspection; the logs are requested right after an inspection that
\* reported "exited"; the removal is the last call.  When launchRestic has
\* returned no error its calls are those of a successful launch, the worker's
\* output was read before the removal, and the exit code returned is the one
\* the worker exited with, as that inspection reported it.
C16_LaunchOrder ==
    prog = "restic" =>
       /\ \A j \in 1..(Len(trace) - 1) :
             /\ Rank(trace[j].call) <= Rank(trace[j + 1].call)
             /\ Rank(trace[j].call) = Rank(trace[j + 1].call)
                   => trace[j] = Call("ContainerInspect", "running")
             /\ trace[j + 1].call = "ContainerLogs"
                   => trace[j] = Call("ContainerInspect", "exited")
             /\ trace[j].call # "RemoveContainer"
       /\ ( LaunchReturned /\ err = NoErr ) =>
             /\ IsSuccessfulLaunch(trace)
             /\ state = container.ExitCode
             /\ worker = "removed"

\* C16 witness: a launch that returned no error after two inspections, with
\* the exit code 2 and some output.
C16_Witness ==
    /\ LaunchReturned /\ err = NoErr
    /\ Observed("ContainerInspect", "running") /\ Observed("ContainerInspect", "exited")
    /\ Observed("PullImage", "ok")
    /\ state = 2 /\ stdout # << >>

\* launchRestic has returned without an inspection that reported "exited".
ReturnedUnobserved == LaunchReturned /\ ~Observed("ContainerInspect", "exited")

\* C17: the exit code 0 of a worker whose exit was never observed is not a
\* success.  When launchRestic has returned before an inspection reported
\* "exited" it has returned an error (with the state 0), and the step that
\* called it then returns an error to Retry; verify sends no metric and does
\* not touch the time of the last check.
C17_UnobservedExitIsNoSuccess ==
    /\ [] ( ReturnedUnobserved => ( err # NoErr /\ state = 0 /\ stdout = << >> ) )
    /\ [][ ReturnedUnobserved =>
              /\ fails'[pc] = fails[pc] + 1
              /\ retried'[pc] # "ok"
              /\ metrics' = metrics
              /\ lastCheck' = lastCheck ]_vars

\* C17 witness: verify is at its second attempt, after a first attempt whose
\* worker could not be started: no metric, no time of the last check.
C17_Witness ==
    /\ prog = "restic" /\ step = "verify" /\ attempt = 2 /\ fails["verify"] = 1
    /\ pc = "PullImage"
    /\ container.started = FALSE /\ container.removes = 1
    /\ container.Cmd = <<"-r", "s3://bucket", "check">>
    /\ metrics = << >> /\ ~lastCheck

\* launchRestic has returned to init.
InitResumes == prog = "restic" /\ pc = "init"

\* C18: initialization idempotence.  When the output of the init worker
\* contains "already initialized", init returns no error whatever the exit
\* code: Retry does not call init again and Backup invokes the backup step.
\* When the output does not contain it, a launch error or an exit code other
\* than 0 makes init return an error to Retry.
C18_InitIdempotence ==
    /\ [][ ( InitResumes /\ ContainsAlreadyInitialized(stdout) ) =>
              /\ fails' = fails
              /\ retried'["init"] = "ok"
              /\ calls'["init"] = calls["init"]
              /\ step' = "resticBackup" /\ calls'["resticBackup"] = 1 ]_vars
    /\ [][ ( /\ InitResumes /\ ~ContainsAlreadyInitialized(stdout)
             /\ (err # NoErr \/ state # 0) ) =>
              /\ fails'["init"] = fails["init"] + 1
              /\ retried'["init"] # "ok"
              /\ calls'["resticBackup"] = 0 ]_vars

\* C18 witness: the init worker exited with code 2 and init never failed, yet
\* the backup step is being run: the output said "already initialized".
C18_Witness ==
    /\ prog = "restic" /\ step = "resticBackup" /\ pc = "PullImage"
    /\ Succeeded("init") /\ fails["init"] = 0
    /\ container.Cmd = <<"-r", "s3://bucket", "init">> /\ container.ExitCode = 2

\* The workers created and not yet removed.
Outstanding == created - removed

\* C19: at most one worker is outstanding at any time, and the volumes are
\* processed one after another in discovery order.  In every state of a run
\* the workers created and not removed are 0 or 1; backupVolume is called for
\* the volumes in the order of the list, each after the call for the volume
\* before it has returned; a worker is created only when every worker created
\* before it has been removed, and for a volume later in the list than the
\* volume of the worker before it.
C19_OneWorkerAtATime ==
    /\ [] ( prog \in {"main", "restic"} => Outstanding \in {0, 1} )
    /\ [] ( prog = "main" =>
             /\ \E k \in 0..Len(vols) : entered = 1..k
             /\ entered \subseteq 1..i
             /\ Outstanding = 1 => container.vol = i /\ i \in entered )
    /\ [][ ( prog = "main" /\ created' # created ) =>
              /\ created' = created + 1
              /\ removed = created
              /\ container'.vol = i /\ container.vol < i
              /\ vols' = vols ]_vars
    /\ [][ ( prog = "main" /\ entered' # entered ) =>
              /\ entered = 1..(i - 1)
              /\ entered' = 1..i
              /\ Outstanding = 0 ]_vars

\* C19 witness: the worker of the second volume exists, after the worker of
\* the first volume was created and removed.
C19_Witness ==
    /\ prog = "main" /\ pc = "Start" /\ i = 2
    /\ created = 2 /\ removed = 1
    /\ container.vol = 2 /\ container.ID = 2 /\ container.removes = 0

\* The image check has run and has returned.
ImageChecked ==
    /\ image # NoImage
    /\ prog = "restic" => pc # "PullImage"

\* The inspection of the image failed, and its fetch failed too.
ImageFailed == image.inspect # NoErr /\ image.pull \notin {NoErr, NotCalled}

\* C20: image availability.  The image is inspected first; it is fetched if
\* and only if the inspection failed; the check returns an error if and only
\* if the inspection failed and the fetch failed too.  An error ends the run
\* of main with a failure, and makes launchRestic return an error before it
\* creates a worker; without an error both go on.
C20_ImageAvailability ==
    ImageChecked =>
       /\ image.inspect # NotCalled
       /\ image.pull # NotCalled <=> image.inspect # NoErr
       /\ pulled <=> image.pull # NotCalled
       /\ prog = "main" =>
             /\ Reported("image", 0) <=> ImageFailed
             /\ ImageFailed => pc = "exited" /\ exitCode = 1 /\ created = 0
             /\ ~ImageFailed => pc # "exited" \/ Reported("create", i)
       /\ prog = "restic" =>
             /\ ImageFailed =>
                   /\ err # NoErr /\ pc # "ContainerCreate"
                   /\ ~Requested("ContainerCreate")
                   /\ pc \in {"return", "returned"} \cup Steps
             /\ ~ImageFailed => pc = "ContainerCreate" \/ Requested("ContainerCreate")
             /\ pc = "ContainerCreate" => err = NoErr

\* C20 witness: the inspection of the image failed and its fetch succeeded:
\* main goes on to the volumes without an error.
C20_Witness ==
    /\ prog = "main" /\ pc = "loop"
    /\ image = [inspect |-> "InspectImage failed", pull |-> NoErr]
    /\ pulled /\ ~Reported("image", 0) /\ err = NoErr

\* The volume as it was handed to the engine.
Derived == CHOOSE vol \in ResticVolumes : vol.TargetURL = v.TargetURL

\* Backup has assigned the fields of the volume and has started its steps.
BackupStarted == prog = "restic" /\ calls["init"] > 0

\* The volume as another call of Backup would leave it.
AfterNextBackup == setVolume(v, urlParse(v.TargetURL))

\* C21: the resolved parameters of a volume are immutable.  Backup leaves the
\* directory to back up as it was derived, and another call of Backup on the
\* same volume would build, for each step, the command and the bind list this
\* call has built.
C21_VolumeImmutable ==
    BackupStarted =>
       /\ v.BackupDir = Derived.BackupDir
       /\ \A s \in Steps : resticCmd(s, AfterNextBackup) = resticCmd(s, v)
       /\ AfterNextBackup.Mount = v.Mount

\* The kinds of failure main and backupVolume report for a volume.
VolumeFailures == {"inspect", "create", "start", "process"}

\* C22: failure attribution in the batch loop.  A failure is reported for a
\* volume only in the iteration of that volume and only for an operation on
\* it that failed: an inspection failure only when its InspectVolume call
\* failed, a processing failure only when its worker failed to start.  A
\* volume whose inspection succeeded has no inspection failure reported, also
\* when the volume before it failed.
C22_FailureAttribution ==
    prog = "main" =>
       \A k \in 1..Len(vols) :
          /\ Reported("inspect", k) => k \in inspectFailed
          /\ Reported("process", k) => Reported("start", k)
          /\ \A what \in VolumeFailures : Reported(what, k) => k <= i

====
